---------------------------- MODULE Spec2Model ----------------------------
(***************************************************************************)
(* Model of the two TAXII/STIX feed integrations of the repository:        *)
(*   FeedMitreAttackv2.py  (Client.build_iterator and its helpers)         *)
(*   FeedUnit42v2.py       (fetch_indicators and its helpers)              *)
(*                                                                         *)
(* Conventions.                                                            *)
(*  - Python None of a string-valued expression is the string None; of any *)
(*    other value it is the empty set, a present value v being {v}.        *)
(*  - STIX ids, references and patterns are strings; str.split('--')[0],   *)
(*    str.startswith and the substring test `in` are computed on their     *)
(*    characters.                                                          *)
(*  - A Python exception leaving a function is the frame's pc = "raised".  *)
(***************************************************************************)
EXTENDS Integers, Sequences, FiniteSets, TLC

VARIABLES
    limit,       \* MITRE: build_iterator's limit argument
    tags,        \* MITRE: Client.tags
    tlp_color,   \* MITRE: Client.tlp_color
    b,           \* MITRE: the frame (locals) of Client.build_iterator
    served,      \* MITRE, history: the objects the queries have returned, and by which collection
    queried,     \* MITRE, history: the (collection, concept) pairs queried, in order
    failed,      \* MITRE, history: some query of this call has raised
    params,      \* Unit42: feed_tags, tlp_color, create_relationships of fetch_indicators
    fi,          \* Unit42: the client's objects_data and the frame of fetch_indicators
    call,        \* a helper function called on its own: its arguments and its result
    main         \* main(): the command, its position, and what it has told the platform

mitreVars == <<limit, tags, tlp_color, b, served, queried, failed>>

unit42Vars == <<params, fi>>

helperVars == <<call>>

mainVars == <<main>>

vars == <<mitreVars, unit42Vars, helperVars, mainVars>>

(***************************************************************************)
(* Bounds of the model.                                                    *)
(***************************************************************************)
MaxServed == 2        \* MITRE: objects the server returns in one fetch cycle, in total
MaxFetched == 3       \* Unit42: objects the server returns in one fetch cycle, in total
MaxLines == 3         \* the timestamps of one created/modified value
MaxRefs == 3          \* the external references of one object

None == "None"

Min(a, c) == IF a <= c THEN a ELSE c

Range(s) == {s[i] : i \in DOMAIN s}

\* dict.get(key) of a dict whose values are strings
Get(d, k) == IF k \in DOMAIN d THEN d[k] ELSE None

\* dict.get(key) of a dict whose values are not strings
GetOpt(d, k) == IF k \in DOMAIN d THEN {d[k]} ELSE {}

(***************************************************************************)
(* FeedMitreAttackv2.py: constants                                         *)
(***************************************************************************)
MITRE_TYPE_TO_DEMISTO_TYPE ==
    ("attack-pattern" :> "STIX Attack Pattern") @@
    ("course-of-action" :> "Course of Action") @@
    ("intrusion-set" :> "Intrusion Set") @@
    ("malware" :> "STIX Malware") @@
    ("tool" :> "STIX Tool") @@
    ("relationship" :> "Relationship")

INDICATOR_TYPE_TO_SCORE ==
    ("Intrusion Set" :> 3) @@
    ("Attack Pattern" :> 2) @@
    ("Course of Action" :> 0) @@
    ("Malware" :> 3) @@
    ("Tool" :> 2)

\* filter_objs, in the order the dict is iterated: the STIX type each concept filters on
filter_objs ==
    << "attack-pattern", "course-of-action", "intrusion-set", "malware", "tool",
       "relationship" >>

(***************************************************************************)
(* String helpers.                                                         *)
(***************************************************************************)
\* s.startswith(prefix)
StartsWith(s, prefix) == Len(prefix) <= Len(s) /\ SubSeq(s, 1, Len(prefix)) = prefix

\* `sub in s`
Contains(s, sub) ==
    \E i \in 1..(Len(s) - Len(sub) + 1) : SubSeq(s, i, i + Len(sub) - 1) = sub

\* s.split('--')[0]
SplitFirst(s) ==
    LET seps == {i \in 1..(Len(s) - 1) : SubSeq(s, i, i + 1) = "--"}
    IN  IF seps = {} THEN s
        ELSE SubSeq(s, 1, (CHOOSE i \in seps : \A j \in seps : i <= j) - 1)


(***************************************************************************)
(* Results of Python code that may raise.                                  *)
(***************************************************************************)
Raise == [raised |-> TRUE]

Ok(v) == [raised |-> FALSE, v |-> v]

(***************************************************************************)
(* FeedMitreAttackv2.py: the STIX objects a TAXII query may return.        *)
(* A created/modified value is None ({}) or {the string}, its timestamps    *)
(* "YYYY-MM-DDTHH:MM:SS.mmmZ" separated by "\n".                            *)
(***************************************************************************)
\* the ids the server's objects have: two objects of a type where the feed's
\* handling of a second one (or of the same one again) matters
Uuids(t) == IF t \in {"malware", "relationship"} THEN {"1", "2"} ELSE {"1"}

StixId(t, u) == t \o "--" \o u

IndicatorTypes == {"attack-pattern", "course-of-action", "intrusion-set", "malware", "tool"}

ExternalReferences ==
    << [external_id |-> "T1001", url |-> "https://attack.example/T1001", description |-> None],
       [external_id |-> None, url |-> "https://blog.example/post", description |-> "A post"] >>

\* the created and the modified value of an object that has them
CreatedServed == "2020-01-01T00:00:00.000Z\n2019-01-01T00:00:00.000Z"

ModifiedServed == "2020-02-01T00:00:00.000Z\n2021-03-04T05:06:07.089Z"

\* at most one of: deprecated, revoked, or one of the optional fields absent
Deviations(o) ==
      (IF o.x_mitre_deprecated THEN 1 ELSE 0) + (IF o.revoked THEN 1 ELSE 0)
    + (IF o.created = {} THEN 1 ELSE 0) + (IF o.modified = {} THEN 1 ELSE 0)
    + (IF o.x_mitre_platforms = {} THEN 1 ELSE 0) + (IF o.labels = {} THEN 1 ELSE 0)

IndicatorObjects(t) ==
    { o \in [ type : {t},
              id : {StixId(t, u) : u \in Uuids(t)},
              name : {"name"},
              description : {"description"},
              x_mitre_deprecated : BOOLEAN,
              revoked : BOOLEAN,
              created : {{}, {CreatedServed}},
              modified : {{}, {ModifiedServed}},
              x_mitre_platforms : {{}, {<<"Linux", "macOS">>}},
              labels : {{}, {<<"label">>}},
              aliases : {{}},
              x_mitre_aliases : {{}},
              external_references : {ExternalReferences} ] :
        Deviations(o) <= 1 }

\* relationship_type, source_ref, target_ref of the relationships served
RelationshipKinds ==
    { <<"uses", StixId("intrusion-set", "1"), StixId("attack-pattern", "1")>>,
      <<"revoked-by", StixId("intrusion-set", "1"), StixId("intrusion-set", "2")>>,
      <<"uses", StixId("malware", "1"), StixId("x-mitre-tactic", "1")>>,
      <<"mitigates", StixId("course-of-action", "2"), StixId("tool", "2")>> }

RelationshipObjects ==
    { [ type |-> "relationship",
        id |-> StixId("relationship", u),
        name |-> None,
        relationship_type |-> k[1],
        source_ref |-> k[2],
        target_ref |-> k[3],
        description |-> None,
        created |-> "2020-01-01T00:00:00.000Z",
        modified |-> "2020-02-01T00:00:00.000Z" ] :
        u \in Uuids("relationship"), k \in RelationshipKinds }

\* what a query with Filter("type", "=", t) may return
ObjectsOfType(t) == IF t = "relationship" THEN RelationshipObjects ELSE IndicatorObjects(t)

SeqsUpTo(S, n) == UNION {[1..k -> S] : k \in 0..n}

(***************************************************************************)
(* FeedMitreAttackv2.py: helpers                                           *)
(***************************************************************************)
\* mutant: the `revoked` flag is not looked at
is_indicator_deprecated_or_revoked_OnlyDeprecated(indicator_json) ==
    indicator_json.x_mitre_deprecated

is_indicator_deprecated_or_revoked(indicator_json) ==
    indicator_json.x_mitre_deprecated \/ indicator_json.revoked

(***************************************************************************)
(* datetime.strptime / strftime with '%Y-%m-%dT%H:%M:%S.%f', on lines whose *)
(* fields have their full width (the form the feeds send).  A datetime is   *)
(* <<year, month, day, hour, minute, second, microsecond>>.                 *)
(***************************************************************************)
\* the decimal digits, by value
DigitChars == <<"0", "1", "2", "3", "4", "5", "6", "7", "8", "9">>

DigitValues == [c \in Range(DigitChars) |-> (CHOOSE i \in DOMAIN DigitChars : DigitChars[i] = c) - 1]

CharAt(s, i) == SubSeq(s, i, i)

IsDigit(c) == c \in DOMAIN DigitValues

DigitValue(c) == DigitValues[c]

AllDigits(s) == \A i \in 1..Len(s) : IsDigit(CharAt(s, i))

\* int(s) of a string of digits
RECURSIVE ToInt(_)
ToInt(s) ==
    IF s = "" THEN 0
    ELSE 10 * ToInt(SubSeq(s, 1, Len(s) - 1)) + DigitValue(CharAt(s, Len(s)))

\* the decimal digits of n, zero-filled to width
RECURSIVE ZeroPad(_, _)
ZeroPad(n, width) ==
    IF width <= 1 /\ n < 10 THEN DigitChars[n + 1]
    ELSE ZeroPad(n \div 10, width - 1) \o DigitChars[(n % 10) + 1]

\* str.splitlines(), for the line boundary "\n"
RECURSIVE splitlines(_)
splitlines(s) ==
    IF s = "" THEN <<>>
    ELSE LET ends == {i \in 1..Len(s) : CharAt(s, i) = "\n"}
         IN  IF ends = {} THEN <<s>>
             ELSE LET i == CHOOSE e \in ends : \A f \in ends : e <= f
                  IN  <<SubSeq(s, 1, i - 1)>> \o splitlines(SubSeq(s, i + 1, Len(s)))

IsLeapYear(year) == year % 4 = 0 /\ (year % 100 # 0 \/ year % 400 = 0)

DaysInMonth(year, month) ==
    IF month = 2 THEN (IF IsLeapYear(year) THEN 29 ELSE 28)
    ELSE IF month \in {4, 6, 9, 11} THEN 30 ELSE 31

\* %f: one to six digits, right-filled with zeros to microseconds
RECURSIVE Microseconds(_)
Microseconds(frac) == IF Len(frac) >= 6 THEN ToInt(frac) ELSE Microseconds(frac \o "0")

\* datetime.strptime(date, '%Y-%m-%dT%H:%M:%S.%fZ'); ValueError is Raise
strptime(date) ==
    LET n == Len(date)
        frac == SubSeq(date, 21, n - 1)
    IN  IF n < 22 \/ n > 27 THEN Raise
        ELSE IF ~(/\ CharAt(date, 5) = "-" /\ CharAt(date, 8) = "-" /\ CharAt(date, 11) = "T"
                  /\ CharAt(date, 14) = ":" /\ CharAt(date, 17) = ":" /\ CharAt(date, 20) = "."
                  /\ CharAt(date, n) = "Z"
                  /\ AllDigits(SubSeq(date, 1, 4)) /\ AllDigits(SubSeq(date, 6, 7))
                  /\ AllDigits(SubSeq(date, 9, 10)) /\ AllDigits(SubSeq(date, 12, 13))
                  /\ AllDigits(SubSeq(date, 15, 16)) /\ AllDigits(SubSeq(date, 18, 19))
                  /\ AllDigits(frac))
        THEN Raise
        ELSE LET year == ToInt(SubSeq(date, 1, 4))
                 month == ToInt(SubSeq(date, 6, 7))
                 day == ToInt(SubSeq(date, 9, 10))
                 hour == ToInt(SubSeq(date, 12, 13))
                 minute == ToInt(SubSeq(date, 15, 16))
                 second == ToInt(SubSeq(date, 18, 19))
             IN  IF /\ year >= 1 /\ month \in 1..12 /\ day \in 1..DaysInMonth(year, month)
                    /\ hour <= 23 /\ minute <= 59 /\ second <= 59
                 THEN Ok(<<year, month, day, hour, minute, second, Microseconds(frac)>>)
                 ELSE Raise

\* dt.strftime('%Y-%m-%dT%H:%M:%S.%f'); the C library prints %Y without
\* zero-filling
strftime(dt) ==
    ZeroPad(dt[1], 1) \o "-" \o ZeroPad(dt[2], 2) \o "-" \o ZeroPad(dt[3], 2) \o "T"
    \o ZeroPad(dt[4], 2) \o ":" \o ZeroPad(dt[5], 2) \o ":" \o ZeroPad(dt[6], 2) \o "."
    \o ZeroPad(dt[7], 6)

\* datetime.__le__: the order of the fields
RECURSIVE DatetimeLe(_, _)
DatetimeLe(x, y) ==
    IF x = <<>> THEN TRUE
    ELSE IF Head(x) # Head(y) THEN Head(x) < Head(y)
    ELSE DatetimeLe(Tail(x), Tail(y))

\* min(dates) and max(dates): the first of the least, the first of the greatest
SeqMin(s) ==
    s[CHOOSE i \in DOMAIN s :
         /\ \A j \in DOMAIN s : DatetimeLe(s[i], s[j])
         /\ \A j \in 1..(i - 1) : s[j] # s[i]]

SeqMax(s) ==
    s[CHOOSE i \in DOMAIN s :
         /\ \A j \in DOMAIN s : DatetimeLe(s[j], s[i])
         /\ \A j \in 1..(i - 1) : s[j] # s[i]]

\* s[:-3]
DropLast3(s) == SubSeq(s, 1, Len(s) - 3)

\* mutant: the earliest date, whatever the field
handle_multiple_dates_in_one_field_AlwaysMin(field_name, field_value) ==
    IF field_value = {} THEN Raise
    ELSE LET dates_as_string == splitlines(CHOOSE v \in field_value : TRUE)
             parsed == [i \in DOMAIN dates_as_string |-> strptime(dates_as_string[i])]
         IN  IF \E i \in DOMAIN parsed : parsed[i].raised THEN Raise
             ELSE IF parsed = <<>> THEN Raise
             ELSE Ok(DropLast3(strftime(SeqMin([i \in DOMAIN parsed |-> parsed[i].v])))
                     \o "Z")

\* field_value is None ({}) or {the string}
handle_multiple_dates_in_one_field(field_name, field_value) ==
    IF field_value = {} THEN Raise                       \* None.splitlines()
    ELSE LET dates_as_string == splitlines(CHOOSE v \in field_value : TRUE)
             parsed == [i \in DOMAIN dates_as_string |-> strptime(dates_as_string[i])]
         IN  IF \E i \in DOMAIN parsed : parsed[i].raised THEN Raise
             ELSE IF parsed = <<>> THEN Raise            \* min() / max() of an empty list
             ELSE LET dates_as_datetime == [i \in DOMAIN parsed |-> parsed[i].v]
                  IN  IF field_name = "created"
                      THEN Ok(DropLast3(strftime(SeqMin(dates_as_datetime))) \o "Z")
                      ELSE Ok(DropLast3(strftime(SeqMax(dates_as_datetime))) \o "Z")

\* sep.join(strs)
RECURSIVE Join(_, _)
Join(sep, strs) ==
    IF strs = <<>> THEN ""
    ELSE IF Len(strs) = 1 THEN strs[1]
    ELSE strs[1] \o sep \o Join(sep, Tail(strs))

\* the truth value of a str or None
Truthy(x) == x # None /\ x # ""

\* mutant: the references with an external_id are kept too
RECURSIVE Publications_KeepAll(_)
Publications_KeepAll(external_references) ==
    IF external_references = <<>> THEN <<>>
    ELSE LET external_reference == Head(external_references)
         IN  <<[Link |-> external_reference.url,
                Title |-> external_reference.description]>>
             \o Publications_KeepAll(Tail(external_references))

\* lines 154-160
RECURSIVE Publications(_)
Publications(external_references) ==
    IF external_references = <<>> THEN <<>>
    ELSE LET external_reference == Head(external_references)
             rest == Publications(Tail(external_references))
         IN  IF Truthy(external_reference.external_id) THEN rest
             ELSE <<[Link |-> external_reference.url,
                     Title |-> external_reference.description]>> \o rest

\* mapping_by_type, for the indicator types it has a key for
mapping_by_type(indicator_json, mitre_platform) ==
    ("STIX Attack Pattern" :> ("operatingsystemrefs" :> mitre_platform)) @@
    ("Intrusion Set" :> ("aliases" :> indicator_json.aliases)) @@
    ("STIX Malware" :> (("tags" :> indicator_json.labels) @@
                        ("aliases" :> indicator_json.x_mitre_aliases) @@
                        ("operatingsystemrefs" :> mitre_platform))) @@
    ("STIX Tool" :> (("tags" :> indicator_json.labels) @@
                     ("aliases" :> indicator_json.x_mitre_aliases) @@
                     ("operatingsystemrefs" :> mitre_platform)))

\* handle_multiple_dates_in_one_field on the created and the modified value of
\* the objects served, evaluated once
CreatedOfServed == handle_multiple_dates_in_one_field("created", {CreatedServed})

ModifiedOfServed == handle_multiple_dates_in_one_field("modified", {ModifiedServed})

\* the call handle_multiple_dates_in_one_field(field_name, field_value)
HandleMultipleDates(field_name, field_value) ==
    IF field_name = "created" /\ field_value = {CreatedServed} THEN CreatedOfServed
    ELSE IF field_name = "modified" /\ field_value = {ModifiedServed} THEN ModifiedOfServed
    ELSE handle_multiple_dates_in_one_field(field_name, field_value)

map_fields_by_type(indicator_type, indicator_json) ==
    LET created == HandleMultipleDates("created", indicator_json.created)
        modified == HandleMultipleDates("modified", indicator_json.modified)
    IN  IF created.raised \/ modified.raised THEN Raise
        ELSE IF indicator_json.x_mitre_platforms = {} THEN Raise    \* ','.join(None)
        ELSE
          LET mitre_platform ==
                  Join(",", CHOOSE p \in indicator_json.x_mitre_platforms : TRUE)
              generic_mapping_fields ==
                  ("stixid" :> indicator_json.id) @@
                  ("firstseenbysource" :> created.v) @@
                  ("modified" :> modified.v) @@
                  ("description" :> indicator_json.description) @@
                  ("publications" :> Publications(indicator_json.external_references))
              by_type == mapping_by_type(indicator_json, mitre_platform)
          IN  IF indicator_type \notin DOMAIN by_type THEN Raise    \* dict.update(None)
              ELSE Ok(by_type[indicator_type] @@ generic_mapping_fields)

\* EntityRelation(...), as the record of its arguments
EntityRelation(name, entity_a, entity_a_type, entity_b, entity_b_type, fields) ==
    [ name |-> name, entity_a |-> entity_a, entity_a_type |-> entity_a_type,
      entity_b |-> entity_b, entity_b_type |-> entity_b_type, fields |-> fields ]

create_relationship(item_json) ==
    LET a_type == Get(MITRE_TYPE_TO_DEMISTO_TYPE, SplitFirst(item_json.source_ref))
        b_type == Get(MITRE_TYPE_TO_DEMISTO_TYPE, SplitFirst(item_json.target_ref))
        mapping_fields ==
            [ description |-> item_json.description,
              lastseenbysource |-> item_json.modified,
              firstseenbysource |-> item_json.created ]
    IN  EntityRelation(item_json.relationship_type, item_json.source_ref, a_type,
                       item_json.target_ref, b_type, mapping_fields)

(***************************************************************************)
(* Elements of a Python list that holds strings and lists together.        *)
(***************************************************************************)
PyStr(x) == [str |-> x]

PyList(x) == [list |-> x]

(***************************************************************************)
(* fetch_indicators (Unit42): the client's objects_data and the frame.     *)
(* ti is the position of get_stix_objects in item_types_to_fetch_from_api. *)
(***************************************************************************)
\* lines 333-334
item_types_to_fetch_from_api ==
    << "report", "indicator", "malware", "campaign", "attack-pattern", "relationship",
       "course-of-action" >>

InitFetch ==
    [ pc |-> "fetch", ti |-> 1,
      objects_data |-> [t \in Range(item_types_to_fetch_from_api) |-> <<>>],
      indicators |-> <<>>, reports |-> <<>>, attack_pattern_indicators |-> <<>>,
      result |-> <<>>, raised_in |-> None ]

\* the Unit42 feed while the MITRE feed runs
IdleParams == [feed_tags |-> <<>>, tlp_color |-> None, create_relationships |-> FALSE]

IdleFetch == [InitFetch EXCEPT !.pc = "idle"]

\* no helper is called on its own; main() is not running
NoCall == [fn |-> None]

NoMain == [pc |-> "idle"]

(***************************************************************************)
(* Client.build_iterator: its frame.  ci, ki, ii are the positions of the  *)
(* three nested for loops (collection, concept, mitre_item).               *)
(***************************************************************************)
NumConcepts == Len(filter_objs)

\* self.collections, by collection id
Collections == <<"enterprise-attack", "mobile-attack">>

NumCollections == Len(Collections)

InitFrame ==
    [ pc |-> "collections", ci |-> 1, ki |-> 1, ii |-> 1, mitre_data |-> <<>>,
      indicators |-> <<>>, mitre_id_list |-> {}, relationships_list |-> <<>>,
      counter |-> 0 ]

\* mutant: `0 < limit < counter`
LimitReached_OffByOne(st, lim) == 0 < lim /\ lim < st.counter

\* `0 < limit <= counter`
LimitReached(st, lim) == 0 < lim /\ lim <= st.counter

\* for collection in self.collections: ... if 0 < limit <= counter: break
ForCollection(st, lim) ==
    IF st.ci > NumCollections \/ LimitReached(st, lim)
    THEN [st EXCEPT !.pc = "return"]
    ELSE [st EXCEPT !.pc = "concepts", !.ki = 1]

\* the concept loop is exhausted, or `break`: on to the next collection
EndConcepts(st) == [st EXCEPT !.pc = "collections", !.ci = st.ci + 1]

\* mutant: `except Exception: break`
AfterQueryRaised_Break(st) == [st EXCEPT !.pc = "collections", !.ci = st.ci + 1]

\* tc_source.query(input_filter) raised: `except Exception: continue`
AfterQueryRaised(st) == [st EXCEPT !.ki = st.ki + 1]

\* tc_source.query(input_filter) returned mitre_data
AfterQuery(st, mitre_data) == [st EXCEPT !.pc = "items", !.mitre_data = mitre_data, !.ii = 1]

\* the item loop is exhausted, or `break`: on to the next concept
EndItems(st) == [st EXCEPT !.pc = "concepts", !.ki = st.ki + 1, !.mitre_data = <<>>, !.ii = 1]

\* mutant: the skipped object is counted
SkipDeprecated_Counted(st) == [st EXCEPT !.ii = st.ii + 1, !.counter = st.counter + 1]

\* line 121: a deprecated or revoked object
SkipDeprecated(st) == [st EXCEPT !.ii = st.ii + 1]

\* lines 122-137: the indicator of one eligible object
AddIndicator(st, mitre_item_json, indicator_type, feed_tags, color) ==
    LET value == mitre_item_json.name
        indicator_score == GetOpt(INDICATOR_TYPE_TO_SCORE, indicator_type)
        \* lines 123-137, mapped being what map_fields_by_type returned or raised
        WithFields(mapped) ==
            IF mapped.raised THEN [st EXCEPT !.pc = "raised"]
            ELSE IF "tags" \notin DOMAIN mapped.v THEN [st EXCEPT !.pc = "raised"]   \* KeyError
            ELSE IF mapped.v["tags"] = {} THEN [st EXCEPT !.pc = "raised"]           \* None.append
            ELSE
              LET labels == CHOOSE l \in mapped.v["tags"] : TRUE
                  with_tags ==
                      [mapped.v EXCEPT !["tags"] =
                          {[i \in 1..Len(labels) |-> PyStr(labels[i])] \o <<PyList(feed_tags)>>}]
                  fields ==
                      IF color # None THEN ("trafficlightprotocol" :> color) @@ with_tags
                      ELSE with_tags
                  indicator_obj ==
                      [ value |-> value, score |-> indicator_score, type |-> indicator_type,
                        rawJSON |-> mitre_item_json, fields |-> fields ]
              IN  [st EXCEPT !.indicators = Append(st.indicators, indicator_obj),
                             !.counter = st.counter + 1,
                             !.mitre_id_list = st.mitre_id_list \cup {mitre_item_json.id},
                             !.ii = st.ii + 1]
    IN  WithFields(map_fields_by_type(indicator_type, mitre_item_json))

\* mutant: the id is not looked up
Seen_Never(st, id) == FALSE

\* line 110: `mitre_item_json.get('id') not in mitre_id_list`, negated
Seen(st, id) == id \in st.mitre_id_list

\* lines 109-137: the body of the item loop for one mitre_item
ProcessItem(st, mitre_item_json, feed_tags, color) ==
    IF Seen(st, mitre_item_json.id) THEN [st EXCEPT !.ii = st.ii + 1]
    ELSE
      LET indicator_type == Get(MITRE_TYPE_TO_DEMISTO_TYPE, mitre_item_json.type)
      IN  IF indicator_type = "Relationship"
          THEN IF mitre_item_json.relationship_type = "revoked-by"
               THEN [st EXCEPT !.ii = st.ii + 1]
               ELSE [st EXCEPT !.relationships_list =
                                   Append(st.relationships_list,
                                          create_relationship(mitre_item_json)),
                               !.mitre_id_list = st.mitre_id_list \cup {mitre_item_json.id},
                               !.ii = st.ii + 1]
          ELSE IF is_indicator_deprecated_or_revoked(mitre_item_json)
               THEN SkipDeprecated(st)
               ELSE AddIndicator(st, mitre_item_json, indicator_type, feed_tags, color)

\* line 140: what indicators[0]['relationships'] is set to
RelationshipsOfOutput(relationships_list) == <<PyStr("relationships_list")>>

\* lines 139-142
Return(st) ==
    [st EXCEPT !.pc = "done",
               !.indicators =
                   IF st.indicators = <<>> THEN <<>>
                   ELSE [st.indicators EXCEPT ![1] =
                            ("relationships" :> RelationshipsOfOutput(st.relationships_list))
                            @@ st.indicators[1]]]

(***************************************************************************)
(* The MITRE feed: one call of Client.build_iterator(limit).               *)
(***************************************************************************)
\* limit: the default -1 of fetch-indicators, or the argument of mitre-get-indicators
Limits == {-1, 0, 1, 2}

\* the instance parameters feedTags and tlp_color
Params == { [tags |-> <<>>, tlp_color |-> None],
            [tags |-> <<"tag1", "tag2">>, tlp_color |-> "RED"] }

Init ==
    /\ limit \in Limits
    /\ \E p \in Params : tags = p.tags /\ tlp_color = p.tlp_color
    /\ b = InitFrame
    /\ served = <<>>
    /\ queried = <<>>
    /\ failed = FALSE
    /\ params = IdleParams
    /\ fi = IdleFetch
    /\ call = NoCall
    /\ main = NoMain

NextCollection ==
    /\ b.pc = "collections"
    /\ b' = ForCollection(b, limit)
    /\ UNCHANGED <<limit, tags, tlp_color, served, queried, failed, unit42Vars, helperVars, mainVars>>

ConceptsDone ==
    /\ b.pc = "concepts"
    /\ b.ki > NumConcepts \/ LimitReached(b, limit)
    /\ b' = EndConcepts(b)
    /\ UNCHANGED <<limit, tags, tlp_color, served, queried, failed, unit42Vars, helperVars, mainVars>>

QueryRaises ==
    /\ b.pc = "concepts"
    /\ b.ki <= NumConcepts /\ ~LimitReached(b, limit)
    /\ b' = AfterQueryRaised(b)
    /\ queried' = Append(queried, <<b.ci, b.ki>>)
    /\ failed' = TRUE
    /\ UNCHANGED <<limit, tags, tlp_color, served, unit42Vars, helperVars, mainVars>>

QueryReturns ==
    /\ b.pc = "concepts"
    /\ b.ki <= NumConcepts /\ ~LimitReached(b, limit)
    /\ \E mitre_data \in SeqsUpTo(ObjectsOfType(filter_objs[b.ki]), MaxServed - Len(served)) :
          /\ b' = AfterQuery(b, mitre_data)
          /\ served' = served \o [i \in 1..Len(mitre_data) |->
                                      [collection |-> b.ci, object |-> mitre_data[i]]]
    /\ queried' = Append(queried, <<b.ci, b.ki>>)
    /\ UNCHANGED <<limit, tags, tlp_color, failed, unit42Vars, helperVars, mainVars>>

ItemsDone ==
    /\ b.pc = "items"
    /\ b.ii > Len(b.mitre_data) \/ LimitReached(b, limit)
    /\ b' = EndItems(b)
    /\ UNCHANGED <<limit, tags, tlp_color, served, queried, failed, unit42Vars, helperVars, mainVars>>

Item ==
    /\ b.pc = "items"
    /\ b.ii <= Len(b.mitre_data) /\ ~LimitReached(b, limit)
    /\ b' = ProcessItem(b, b.mitre_data[b.ii], tags, tlp_color)
    /\ UNCHANGED <<limit, tags, tlp_color, served, queried, failed, unit42Vars, helperVars, mainVars>>

Returns ==
    /\ b.pc = "return"
    /\ b' = Return(b)
    /\ UNCHANGED <<limit, tags, tlp_color, served, queried, failed, unit42Vars, helperVars, mainVars>>

Next ==
    \/ NextCollection
    \/ ConceptsDone
    \/ QueryRaises
    \/ QueryReturns
    \/ ItemsDone
    \/ Item
    \/ Returns

Spec == Init /\ [][Next]_vars

(***************************************************************************)
(* FeedUnit42v2.py: constants.  A dict that the code iterates is the       *)
(* sequence of its keys, in insertion order, and the mapping.              *)
(***************************************************************************)
UNIT42_KEYS ==
    << "ipv4-addr", "ipv6-addr", "domain", "domain-name", "url", "md5", "sha-1", "sha-256",
       "file:hashes" >>

UNIT42_TYPES_TO_DEMISTO_TYPES ==
    ("ipv4-addr" :> "IP") @@
    ("ipv6-addr" :> "IPv6") @@
    ("domain" :> "Domain") @@
    ("domain-name" :> "Domain") @@
    ("url" :> "URL") @@
    ("md5" :> "File") @@
    ("sha-1" :> "File") @@
    ("sha-256" :> "File") @@
    ("file:hashes" :> "File")

RELATIONS_TYPE_TO_DEMISTO_TYPES ==
    ("campaign" :> "Campaign") @@
    ("attack-pattern" :> "Attack Pattern") @@
    ("report" :> "Report") @@
    ("indicator" :> "Indicator") @@
    ("malware" :> "Malware") @@
    ("course-of-action" :> "Course of Action")

(***************************************************************************)
(* FeedUnit42v2.py: the STIX objects the server may return, by type.       *)
(***************************************************************************)
\* pattern and labels of the indicator objects served
U42IndicatorKinds ==
    { [pattern |-> {"[domain-name:value = 'a.example']"}, labels |-> {<<"malicious">>}],
      [pattern |-> {"[ipv4-addr:value = '198.51.100.1']"}, labels |-> {<<"malicious">>}],
      [pattern |-> {"[url:value = 'http://domain.example/a']"}, labels |-> {<<"malicious">>}],
      [pattern |-> {"[email-addr:value = 'a@b.example']"}, labels |-> {<<"malicious">>}],
      [pattern |-> {"[ipv4-addr:value = '198.51.100.1']"}, labels |-> {}],
      [pattern |-> {}, labels |-> {<<"malicious">>}] }

U42Indicators ==
    { [ type |-> "indicator", id |-> StixId("indicator", uid), name |-> "name",
        pattern |-> k.pattern, labels |-> k.labels,
        created |-> "2020-01-01T00:00:00.000Z", modified |-> "2020-02-01T00:00:00.000Z" ] :
        uid \in {"1", "2"}, k \in U42IndicatorKinds }

U42Reports ==
    { [ type |-> "report", id |-> StixId("report", "1"), name |-> "name", labels |-> l,
        published |-> "2020-01-01T00:00:00.000Z", description |-> "description",
        created |-> "2020-01-01T00:00:00.000Z", modified |-> "2020-02-01T00:00:00.000Z",
        object_refs |-> <<StixId("indicator", "1")>> ] :
        l \in {{}, {<<"report">>}} }

U42AttackPatterns ==
    { [ type |-> "attack-pattern", id |-> StixId("attack-pattern", "1"), name |-> "name",
        description |-> "description", created |-> c,
        modified |-> {"2020-02-01T00:00:00.000Z\n2021-03-04T05:06:07.089Z"},
        x_mitre_platforms |-> {<<"Linux">>}, external_references |-> ExternalReferences ] :
        c \in {{}, {"2020-01-01T00:00:00.000Z\n2019-01-01T00:00:00.000Z"}} }

\* relationship_type, source_ref, target_ref, x_panw_coa_u42_panw_product
U42RelationshipKinds ==
    { <<"indicates", StixId("indicator", "1"), StixId("malware", "1"), {}>>,
      <<"indicates", StixId("indicator", "2"), StixId("campaign", "1"), {}>>,
      <<"uses", StixId("campaign", "1"), StixId("indicator", "1"), {}>>,
      <<"uses", StixId("intrusion-set", "1"), StixId("attack-pattern", "1"), {}>>,
      <<"mitigates", StixId("course-of-action", "1"), StixId("attack-pattern", "1"), {}>>,
      <<"mitigates", StixId("course-of-action", "1"), StixId("attack-pattern", "1"),
        {<<"NGFW">>}>> }

U42Relationships ==
    { [ type |-> "relationship",
        id |-> StixId("relationship", k[1] \o "-" \o k[2] \o "-" \o k[3]),
        relationship_type |-> k[1], source_ref |-> k[2], target_ref |-> k[3],
        x_panw_coa_u42_panw_product |-> k[4],
        created |-> "2020-01-01T00:00:00.000Z", modified |-> "2020-02-01T00:00:00.000Z" ] :
        k \in U42RelationshipKinds }

\* an object of a type of which the feed reads the id only
U42Plain(t) == { [type |-> t, id |-> StixId(t, "1"), name |-> "name"] }

\* what collection.get_objects(type=t) may return
U42ObjectsOfType(t) ==
    CASE t = "indicator" -> U42Indicators
      [] t = "report" -> U42Reports
      [] t = "attack-pattern" -> U42AttackPatterns
      [] t = "relationship" -> U42Relationships
      [] OTHER -> U42Plain(t)

(***************************************************************************)
(* FeedUnit42v2.py: parse_indicators, parse_reports                        *)
(***************************************************************************)
\* set(labels).union(set(feed_tags)): the order of the list made of it is not fixed
TagsUnion(labels, feed_tags) == Range(labels) \cup Range(feed_tags)

\* lines 94-110: the indicator record for one key of UNIT42_TYPES_TO_DEMISTO_TYPES
U42IndicatorObj(indicator_object, key, feed_tags, color) ==
    LET fields ==
            ("firstseenbysource" :> indicator_object.created) @@
            ("indicatoridentification" :> indicator_object.id) @@
            ("tags" :> TagsUnion(CHOOSE l \in indicator_object.labels : TRUE, feed_tags)) @@
            ("modified" :> indicator_object.modified) @@
            ("reportedby" :> "Unit42")
    IN  [ value |-> indicator_object.name,
          type |-> UNIT42_TYPES_TO_DEMISTO_TYPES[key],
          rawJSON |-> indicator_object,
          fields |-> IF color # None THEN ("trafficlightprotocol" :> color) @@ fields
                     ELSE fields ]

\* lines 91-110: the records one indicator object yields
ParseIndicatorObject(indicator_object, feed_tags, color) ==
    IF indicator_object.pattern = {} THEN Raise                \* None.startswith
    ELSE
      LET pattern == CHOOSE x \in indicator_object.pattern : TRUE
          keys == SelectSeq(UNIT42_KEYS, LAMBDA key : StartsWith(pattern, "[" \o key))
      IN  IF keys # <<>> /\ indicator_object.labels = {} THEN Raise     \* set(None)
          ELSE Ok([i \in 1..Len(keys) |->
                      U42IndicatorObj(indicator_object, keys[i], feed_tags, color)])

RECURSIVE parse_indicators(_, _, _)
parse_indicators(indicator_objects, feed_tags, color) ==
    IF indicator_objects = <<>> THEN Ok(<<>>)
    ELSE LET first == ParseIndicatorObject(Head(indicator_objects), feed_tags, color)
         IN  IF first.raised THEN Raise
             ELSE LET rest == parse_indicators(Tail(indicator_objects), feed_tags, color)
                  IN  IF rest.raised THEN Raise ELSE Ok(first.v \o rest.v)

\* lines 129-153: the record of one report object
ParseReportObject(report_object, feed_tags, color) ==
    IF report_object.labels = {} THEN Raise                    \* set(None)
    ELSE
      LET fields ==
              ("stixid" :> report_object.id) @@
              ("published" :> report_object.published) @@
              ("stixdescription" :> report_object.description) @@
              ("reportedby" :> "Unit42") @@
              ("tags" :> TagsUnion(CHOOSE l \in report_object.labels : TRUE, feed_tags))
      IN  Ok([ type |-> "STIX Report",
               value |-> "[Unit42 ATOM] " \o report_object.name,
               fields |-> IF color # None THEN ("trafficlightprotocol" :> color) @@ fields
                          ELSE fields,
               rawJSON |-> [ unit42_id |-> report_object.id,
                             unit42_labels |-> report_object.labels,
                             unit42_published |-> report_object.published,
                             unit42_created_date |-> report_object.created,
                             unit42_modified_date |-> report_object.modified,
                             unit42_description |-> report_object.description,
                             unit42_object_refs |-> report_object.object_refs ] ])

RECURSIVE parse_reports(_, _, _)
parse_reports(report_objects, feed_tags, color) ==
    IF report_objects = <<>> THEN Ok(<<>>)
    ELSE LET first == ParseReportObject(Head(report_objects), feed_tags, color)
         IN  IF first.raised THEN Raise
             ELSE LET rest == parse_reports(Tail(report_objects), feed_tags, color)
                  IN  IF rest.raised THEN Raise ELSE Ok(<<first.v>> \o rest.v)

(***************************************************************************)
(* FeedUnit42v2.py: create_attack_pattern_indicator                        *)
(***************************************************************************)
\* field_value is None ({}) or {the string}
handle_multiple_dates_in_one_field_unit42(field_name, field_value) ==
    IF field_value = {} THEN Raise                       \* None.splitlines()
    ELSE LET dates_as_string == splitlines(CHOOSE v \in field_value : TRUE)
             parsed == [i \in DOMAIN dates_as_string |-> strptime(dates_as_string[i])]
         IN  IF \E i \in DOMAIN parsed : parsed[i].raised THEN Raise
             ELSE IF parsed = <<>> THEN Raise            \* min() / max() of an empty list
             ELSE LET dates_as_datetime == [i \in DOMAIN parsed |-> parsed[i].v]
                  IN  IF field_name = "created"
                      THEN Ok(DropLast3(strftime(SeqMin(dates_as_datetime))) \o "Z")
                      ELSE Ok(DropLast3(strftime(SeqMax(dates_as_datetime))) \o "Z")

\* lines 185-195: source_ref -> product[0] or 'No product', the last relationship winning
CoursesOfAction(relationships) ==
    LET idx == {i \in DOMAIN relationships :
                    StartsWith(relationships[i].source_ref, "course-of-action")}
        last(source) == CHOOSE i \in idx :
                            /\ relationships[i].source_ref = source
                            /\ \A j \in idx : relationships[j].source_ref = source => j <= i
    IN  [ source \in {relationships[i].source_ref : i \in idx} |->
            LET product == relationships[last(source)].x_panw_coa_u42_panw_product
            IN  IF product # {} /\ (CHOOSE x \in product : TRUE) # <<>>
                THEN (CHOOSE x \in product : TRUE)[1]
                ELSE "No product" ]

\* courses_list is a str: `for course_of_action in courses_list` yields its
\* characters, and course_of_action.get raises AttributeError on the first one
create_course_of_action_field(courses_of_action) ==
    IF DOMAIN courses_of_action = {} THEN Ok("No courses of action found.")
    ELSE IF \E source \in DOMAIN courses_of_action : Len(courses_of_action[source]) > 0
         THEN Raise
         ELSE Ok("<markdown tables without rows>")

\* lines 202-208
RECURSIVE PublicationsUnit42(_)
PublicationsUnit42(external_references) ==
    IF external_references = <<>> THEN <<>>
    ELSE LET external_reference == Head(external_references)
             rest == PublicationsUnit42(Tail(external_references))
         IN  IF Truthy(external_reference.external_id) THEN rest
             ELSE <<[Link |-> external_reference.url,
                     Title |-> external_reference.description]>> \o rest

\* lines 202-228: the indicator of one attack-pattern object
AttackPatternIndicator(attack_indicator, courses_of_action, feed_tags, color) ==
    LET created == handle_multiple_dates_in_one_field_unit42("created", attack_indicator.created)
        modified == handle_multiple_dates_in_one_field_unit42("modified", attack_indicator.modified)
        mitrecourseofaction == create_course_of_action_field(courses_of_action)
    IN  IF created.raised \/ modified.raised \/ mitrecourseofaction.raised THEN Raise
        ELSE
          LET fields ==
                  ("stixid" :> attack_indicator.id) @@
                  ("firstseenbysource" :> created.v) @@
                  ("modified" :> modified.v) @@
                  ("description" :> attack_indicator.description) @@
                  ("operatingsystemrefs" :> attack_indicator.x_mitre_platforms) @@
                  ("mitrecourseofaction" :> mitrecourseofaction.v) @@
                  ("publications" :> PublicationsUnit42(attack_indicator.external_references)) @@
                  ("reportedby" :> "Unit42") @@
                  ("tags" :> feed_tags)
          IN  Ok([ value |-> attack_indicator.name,
                   type |-> "Attack Pattern",
                   fields |-> IF color # None THEN ("trafficlightprotocol" :> color) @@ fields
                              ELSE fields ])

RECURSIVE AttackPatternIndicators(_, _, _, _)
AttackPatternIndicators(attack_indicator_objects, courses_of_action, feed_tags, color) ==
    IF attack_indicator_objects = <<>> THEN Ok(<<>>)
    ELSE LET first == AttackPatternIndicator(Head(attack_indicator_objects),
                                             courses_of_action, feed_tags, color)
         IN  IF first.raised THEN Raise
             ELSE LET rest == AttackPatternIndicators(Tail(attack_indicator_objects),
                                                      courses_of_action, feed_tags, color)
                  IN  IF rest.raised THEN Raise ELSE Ok(<<first.v>> \o rest.v)

create_attack_pattern_indicator(objects_data, feed_tags, color) ==
    AttackPatternIndicators(objects_data["attack-pattern"],
                            CoursesOfAction(objects_data["relationship"]), feed_tags, color)

(***************************************************************************)
(* FeedUnit42v2.py: get_ioc_type, create_list_relationships                *)
(***************************************************************************)
\* lines 346-351: the dict comprehension; of two objects with one id the later wins
IdToObject(objects_data) ==
    LET all == objects_data["report"] \o objects_data["indicator"] \o objects_data["malware"]
               \o objects_data["campaign"] \o objects_data["attack-pattern"]
               \o objects_data["course-of-action"]
    IN  [ id \in {all[i].id : i \in DOMAIN all} |->
            all[CHOOSE i \in DOMAIN all :
                    all[i].id = id /\ \A j \in DOMAIN all : all[j].id = id => j <= i] ]

get_ioc_type(indicator, id_to_object) ==
    LET indicator_obj == GetOpt(id_to_object, indicator)
    IN  IF indicator_obj = {} THEN Raise                         \* None.get('pattern')
        ELSE
          LET obj == CHOOSE x \in indicator_obj : TRUE
          IN  IF "pattern" \notin DOMAIN obj \/ obj.pattern = {} THEN Raise   \* `in None`
              ELSE
                LET pattern == CHOOSE x \in obj.pattern : TRUE
                    found == SelectSeq(UNIT42_KEYS,
                                       LAMBDA unit42_type : Contains(pattern, unit42_type))
                IN  IF found = <<>> THEN Ok("")
                    ELSE Ok(UNIT42_TYPES_TO_DEMISTO_TYPES[found[1]])

\* lines 284-287 and 289-292: the entity type of one side of a relationship
EntityType(ref, id_to_object) ==
    LET type == Get(RELATIONS_TYPE_TO_DEMISTO_TYPES, SplitFirst(ref))
    IN  IF type = "Indicator" THEN get_ioc_type(ref, id_to_object) ELSE Ok(type)

\* lines 284-305: the edge of one relationship object
RelationshipEdge(relationships_object, id_to_object) ==
    LET a_type == EntityType(relationships_object.source_ref, id_to_object)
        b_type == EntityType(relationships_object.target_ref, id_to_object)
        mapping_fields ==
            [ lastseenbysource |-> relationships_object.modified,
              firstseenbysource |-> relationships_object.created ]
    IN  IF a_type.raised \/ b_type.raised THEN Raise
        ELSE Ok(EntityRelation(relationships_object.relationship_type,
                               relationships_object.source_ref, a_type.v,
                               relationships_object.target_ref, b_type.v, mapping_fields))

RECURSIVE RelationshipEdges(_, _)
RelationshipEdges(relationships_objects, id_to_object) ==
    IF relationships_objects = <<>> THEN Ok(<<>>)
    ELSE LET first == RelationshipEdge(Head(relationships_objects), id_to_object)
         IN  IF first.raised THEN Raise
             ELSE LET rest == RelationshipEdges(Tail(relationships_objects), id_to_object)
                  IN  IF rest.raised THEN Raise ELSE Ok(<<first.v>> \o rest.v)

create_list_relationships(objects_data, id_to_object) ==
    RelationshipEdges(objects_data["relationship"], id_to_object)

(***************************************************************************)
(* FeedUnit42v2.py: fetch_indicators, step by step                         *)
(***************************************************************************)
RaisedIn(st, where) == [st EXCEPT !.pc = "raised", !.raised_in = where]

\* lines 54-55, 76: one fetch_stix_objects_from_api(type=type_) of get_stix_objects
AfterFetch(st, data) ==
    [st EXCEPT !.objects_data[item_types_to_fetch_from_api[st.ti]] = data,
               !.ti = st.ti + 1,
               !.pc = IF st.ti = Len(item_types_to_fetch_from_api)
                      THEN "parse_indicators" ELSE "fetch"]

\* line 340
ParseIndicators(st, p) ==
    LET r == parse_indicators(st.objects_data["indicator"], p.feed_tags, p.tlp_color)
    IN  IF r.raised THEN RaisedIn(st, "parse_indicators")
        ELSE [st EXCEPT !.indicators = r.v, !.pc = "parse_reports"]

\* line 342
ParseReports(st, p) ==
    LET r == parse_reports(st.objects_data["report"], p.feed_tags, p.tlp_color)
    IN  IF r.raised THEN RaisedIn(st, "parse_reports")
        ELSE [st EXCEPT !.reports = r.v, !.pc = "create_attack_pattern_indicator"]

\* line 344
CreateAttackPatterns(st, p) ==
    LET r == create_attack_pattern_indicator(st.objects_data, p.feed_tags, p.tlp_color)
    IN  IF r.raised THEN RaisedIn(st, "create_attack_pattern_indicator")
        ELSE [st EXCEPT !.attack_pattern_indicators = r.v, !.pc = "relationships"]

\* mutant: no placeholder without edges
DummyIndicator_OnlyIfEdges(list_relationships) ==
    IF list_relationships = <<>> THEN {}
    ELSE { [value |-> "$$DummyIndicator$$", relationships |-> list_relationships] }

\* lines 357-360: dummy_indicator, a dict ({}: the empty dict)
DummyIndicator(list_relationships) ==
    { [value |-> "$$DummyIndicator$$", relationships |-> list_relationships] }

\* lines 346-363
CreateRelationships(st, p) ==
    IF p.create_relationships
    THEN LET list_relationships ==
                 create_list_relationships(st.objects_data, IdToObject(st.objects_data))
         IN  IF list_relationships.raised THEN RaisedIn(st, "create_list_relationships")
             ELSE LET dummy_indicator == DummyIndicator(list_relationships.v)
                  IN  [st EXCEPT !.pc = "return",
                                 !.indicators =
                                     IF dummy_indicator # {}
                                     THEN Append(st.indicators,
                                                 CHOOSE d \in dummy_indicator : TRUE)
                                     ELSE st.indicators]
    ELSE [st EXCEPT !.pc = "return"]

\* line 369
ReturnIndicators(st) ==
    [st EXCEPT !.pc = "done",
               !.result = st.indicators \o st.reports \o st.attack_pattern_indicators]

Fetched(st) ==
    LET n[i \in 0..Len(item_types_to_fetch_from_api)] ==
            IF i = 0 THEN 0
            ELSE n[i - 1] + Len(st.objects_data[item_types_to_fetch_from_api[i]])
    IN  n[Len(item_types_to_fetch_from_api)]

\* the instance parameters feedTags, tlp_color and create_relationships
Unit42Params ==
    { [feed_tags |-> t[1], tlp_color |-> t[2], create_relationships |-> c] :
        t \in {<<<<>>, None>>, <<<<"tag1">>, "AMBER">>}, c \in BOOLEAN }

InitUnit42 ==
    /\ params \in Unit42Params
    /\ fi = InitFetch
    /\ limit = -1
    /\ tags = <<>>
    /\ tlp_color = None
    /\ b = [InitFrame EXCEPT !.pc = "idle"]
    /\ served = <<>>
    /\ queried = <<>>
    /\ failed = FALSE
    /\ call = NoCall
    /\ main = NoMain

FetchObjects ==
    /\ fi.pc = "fetch"
    /\ \E data \in SeqsUpTo(U42ObjectsOfType(item_types_to_fetch_from_api[fi.ti]),
                            MaxFetched - Fetched(fi)) :
          fi' = AfterFetch(fi, data)
    /\ UNCHANGED <<params, mitreVars, helperVars, mainVars>>

DoParseIndicators ==
    /\ fi.pc = "parse_indicators"
    /\ fi' = ParseIndicators(fi, params)
    /\ UNCHANGED <<params, mitreVars, helperVars, mainVars>>

DoParseReports ==
    /\ fi.pc = "parse_reports"
    /\ fi' = ParseReports(fi, params)
    /\ UNCHANGED <<params, mitreVars, helperVars, mainVars>>

DoCreateAttackPatterns ==
    /\ fi.pc = "create_attack_pattern_indicator"
    /\ fi' = CreateAttackPatterns(fi, params)
    /\ UNCHANGED <<params, mitreVars, helperVars, mainVars>>

DoCreateRelationships ==
    /\ fi.pc = "relationships"
    /\ fi' = CreateRelationships(fi, params)
    /\ UNCHANGED <<params, mitreVars, helperVars, mainVars>>

DoReturn ==
    /\ fi.pc = "return"
    /\ fi' = ReturnIndicators(fi)
    /\ UNCHANGED <<params, mitreVars, helperVars, mainVars>>

NextUnit42 ==
    \/ FetchObjects
    \/ DoParseIndicators
    \/ DoParseReports
    \/ DoCreateAttackPatterns
    \/ DoCreateRelationships
    \/ DoReturn

SpecUnit42 == InitUnit42 /\ [][NextUnit42]_vars

(***************************************************************************)
(* The helper functions, each called on its own with arguments of its      *)
(* parameter types.                                                        *)
(***************************************************************************)
\* the timestamps of one field value: of the feeds' millisecond form, and one
\* with six digits of fraction
TimestampLines ==
    { "2019-01-01T00:00:00.000Z", "2020-01-01T00:00:00.000Z", "2020-01-01T00:00:00.001Z",
      "2020-10-09T23:59:59.999Z", "2021-03-04T05:06:07.089Z",
      "2020-01-01T00:00:00.000500Z" }

FieldNames == {"created", "modified"}

LineSeqs == UNION {[1..k -> TimestampLines] : k \in 0..MaxLines}

\* the external references of one object: with an external_id, without one,
\* with an empty one, and without a url
ExternalReferenceKinds ==
    { [external_id |-> "T1001", url |-> "https://attack.example/T1001", description |-> None],
      [external_id |-> None, url |-> "https://blog.example/post", description |-> "A post"],
      [external_id |-> "", url |-> "https://blog.example/other", description |-> "Other"],
      [external_id |-> None, url |-> None, description |-> "A book"] }

ExternalReferenceSeqs == UNION {[1..k -> ExternalReferenceKinds] : k \in 0..MaxRefs}

\* an object of type t that lacks no field
CompleteObject(t) ==
    CHOOSE o \in IndicatorObjects(t) : Deviations(o) = 0 /\ o.id = StixId(t, "1")

InitHelpers ==
    /\ call = NoCall
    /\ main = NoMain
    /\ limit = -1
    /\ tags = <<>>
    /\ tlp_color = None
    /\ b = [InitFrame EXCEPT !.pc = "idle"]
    /\ served = <<>>
    /\ queried = <<>>
    /\ failed = FALSE
    /\ params = IdleParams
    /\ fi = IdleFetch

\* FeedMitreAttackv2.handle_multiple_dates_in_one_field(field_name, field_value)
CallHandleMultipleDates ==
    /\ call = NoCall
    /\ \E field_name \in FieldNames, lines \in LineSeqs :
          call' = [ fn |-> "handle_multiple_dates_in_one_field",
                    field_name |-> field_name, lines |-> lines,
                    result |-> handle_multiple_dates_in_one_field(
                                   field_name, {Join("\n", lines)}) ]
    /\ UNCHANGED <<mitreVars, unit42Vars, mainVars>>

\* FeedUnit42v2.handle_multiple_dates_in_one_field(field_name, field_value)
CallHandleMultipleDatesUnit42 ==
    /\ call = NoCall
    /\ \E field_name \in FieldNames, lines \in LineSeqs :
          call' = [ fn |-> "handle_multiple_dates_in_one_field_unit42",
                    field_name |-> field_name, lines |-> lines,
                    result |-> handle_multiple_dates_in_one_field_unit42(
                                   field_name, {Join("\n", lines)}) ]
    /\ UNCHANGED <<mitreVars, unit42Vars, mainVars>>

\* map_fields_by_type(indicator_type, indicator_json); publications is the local
\* of that name at line 162
CallMapFieldsByType ==
    /\ call = NoCall
    /\ \E t \in IndicatorTypes, external_references \in ExternalReferenceSeqs :
          LET indicator_json ==
                  [CompleteObject(t) EXCEPT !.external_references = external_references]
          IN  call' = [ fn |-> "map_fields_by_type",
                        indicator_type |-> MITRE_TYPE_TO_DEMISTO_TYPE[t],
                        external_references |-> external_references,
                        publications |-> Publications(external_references),
                        result |-> map_fields_by_type(MITRE_TYPE_TO_DEMISTO_TYPE[t],
                                                      indicator_json) ]
    /\ UNCHANGED <<mitreVars, unit42Vars, mainVars>>

\* create_attack_pattern_indicator(client, feed_tags, tlp_color), the client
\* holding one attack-pattern object; publications is the local at line 210
CallCreateAttackPatternIndicator ==
    /\ call = NoCall
    /\ \E p \in Unit42Params, a \in U42AttackPatterns,
          external_references \in ExternalReferenceSeqs :
          LET objects_data ==
                  [InitFetch.objects_data EXCEPT
                      !["attack-pattern"] =
                          <<[a EXCEPT !.external_references = external_references]>>]
          IN  call' = [ fn |-> "create_attack_pattern_indicator",
                        external_references |-> external_references,
                        publications |-> PublicationsUnit42(external_references),
                        result |-> create_attack_pattern_indicator(
                                       objects_data, p.feed_tags, p.tlp_color) ]
    /\ UNCHANGED <<mitreVars, unit42Vars, mainVars>>

NextHelpers ==
    \/ CallHandleMultipleDates
    \/ CallHandleMultipleDatesUnit42
    \/ CallMapFieldsByType
    \/ CallCreateAttackPatternIndicator

SpecHelpers == InitHelpers /\ [][NextHelpers]_vars

(***************************************************************************)
(* main() of the two integrations.  main.pc: "try" (before the client is   *)
(* built), "dispatch", "build_iterator" / "fetch_indicators" (the feed's   *)
(* function runs, by the actions above), "except", "returned".             *)
(* return_errors, created and results are what main has passed to          *)
(* return_error, demisto.createIndicators and demisto.results.             *)
(***************************************************************************)
MitreCommands ==
    {"test-module", "fetch-indicators", "mitre-get-indicators", "mitre-show-feeds", "other"}

Unit42Commands == {"test-module", "fetch-indicators", "unit42-get-indicators", "other"}

\* args.get('limit'), a str
ArgLimits == {"1", "ten"}

\* the instance parameters main reads: feed tags, a TLP color, and (Unit42)
\* create_relationships set
MainParams == {p \in Params : p.tags # <<>>}

MainUnit42Params == {p \in Unit42Params : p.feed_tags # <<>> /\ p.create_relationships}

batch_size == 2000

\* batch(iterable, batch_size): the slices of batch_size elements, in order
RECURSIVE batch(_, _)
batch(iterable, size) ==
    IF iterable = <<>> THEN <<>>
    ELSE IF Len(iterable) <= size THEN <<iterable>>
    ELSE <<SubSeq(iterable, 1, size)>> \o batch(SubSeq(iterable, size + 1, Len(iterable)), size)

EnterMain(integration, command) ==
    [ integration |-> integration, command |-> command, pc |-> "try", raised |-> FALSE,
      return_errors |-> <<>>, created |-> <<>>, results |-> 0 ]

\* an exception leaves the body of `try`
Raised(st) == [st EXCEPT !.pc = "except", !.raised = TRUE]

\* mutant: `except Exception: pass`
Except_Pass(st) == [st EXCEPT !.pc = "returned"]

\* FeedMitreAttackv2 lines 318-319
Except(st) ==
    [st EXCEPT !.pc = "returned", !.return_errors = Append(st.return_errors, "exception")]

\* FeedUnit42v2 lines 434-435
ExceptUnit42(st) ==
    [st EXCEPT !.pc = "returned", !.return_errors = Append(st.return_errors, "exception")]

\* for iter_ in batch(indicators, batch_size=2000): demisto.createIndicators(iter_)
CreateIndicators(st, indicators) ==
    [st EXCEPT !.pc = "returned", !.created = st.created \o batch(indicators, batch_size)]

\* n calls of demisto.results / return_results
Results(st, n) == [st EXCEPT !.pc = "returned", !.results = st.results + n]

\* test_module (MITRE), lines 236-240
TestModule(st, collections) ==
    IF collections # <<>> THEN Results(st, 1)
    ELSE [st EXCEPT !.pc = "returned",
                    !.return_errors = Append(st.return_errors, "Could not connect to server")]

InitMain ==
    /\ \E integration \in {"FeedMitreAttackv2", "FeedUnit42v2"} :
          /\ \E command \in (IF integration = "FeedMitreAttackv2" THEN MitreCommands
                             ELSE Unit42Commands) :
                main = EnterMain(integration, command)
          /\ IF integration = "FeedMitreAttackv2"
             THEN /\ \E p \in MainParams : tags = p.tags /\ tlp_color = p.tlp_color
                  /\ params = IdleParams
             ELSE /\ tags = <<>> /\ tlp_color = None
                  /\ params \in MainUnit42Params
    /\ limit = -1
    /\ b = [InitFrame EXCEPT !.pc = "idle"]
    /\ served = <<>>
    /\ queried = <<>>
    /\ failed = FALSE
    /\ fi = IdleFetch
    /\ call = NoCall

\* lines 299-300: Client(...) and client.initialise(), which asks the server
MainInitialise ==
    /\ main.integration = "FeedMitreAttackv2" /\ main.pc = "try"
    /\ \E answered \in BOOLEAN :
          main' = IF answered THEN [main EXCEPT !.pc = "dispatch"] ELSE Raised(main)
    /\ UNCHANGED <<mitreVars, unit42Vars, helperVars>>

\* lines 306-307
MainTestModule ==
    /\ main.integration = "FeedMitreAttackv2" /\ main.pc = "dispatch"
    /\ main.command = "test-module"
    /\ \E collections \in {<<>>, Collections} : main' = TestModule(main, collections)
    /\ UNCHANGED <<mitreVars, unit42Vars, helperVars>>

\* lines 309-310, 243-244: fetch_indicators(client) calls client.build_iterator()
MainFetchIndicators ==
    /\ main.integration = "FeedMitreAttackv2" /\ main.pc = "dispatch"
    /\ main.command = "fetch-indicators"
    /\ main' = [main EXCEPT !.pc = "build_iterator"]
    /\ b' = InitFrame
    /\ limit' = -1
    /\ UNCHANGED <<tags, tlp_color, served, queried, failed, unit42Vars, helperVars>>

\* lines 315, 249-252: get_indicators_command calls client.build_iterator(limit=limit)
MainGetIndicators ==
    /\ main.integration = "FeedMitreAttackv2" /\ main.pc = "dispatch"
    /\ main.command = "mitre-get-indicators"
    /\ \E arg \in ArgLimits :
          IF AllDigits(arg)
          THEN /\ main' = [main EXCEPT !.pc = "build_iterator"]
               /\ b' = InitFrame
               /\ limit' = ToInt(arg)
          ELSE /\ main' = Raised(main)                   \* int(): ValueError
               /\ UNCHANGED <<b, limit>>
    /\ UNCHANGED <<tags, tlp_color, served, queried, failed, unit42Vars, helperVars>>

\* lines 315, 273-284
MainShowFeeds ==
    /\ main.integration = "FeedMitreAttackv2" /\ main.pc = "dispatch"
    /\ main.command = "mitre-show-feeds"
    /\ main' = Results(main, 1)
    /\ UNCHANGED <<mitreVars, unit42Vars, helperVars>>

\* line 315: commands[command] of a command that is no key
MainOtherCommand ==
    /\ main.integration = "FeedMitreAttackv2" /\ main.pc = "dispatch"
    /\ main.command = "other"
    /\ main' = Raised(main)
    /\ UNCHANGED <<mitreVars, unit42Vars, helperVars>>

\* build_iterator has returned: lines 311-312, or lines 254-270 (raw or not)
MainBuildIteratorReturned ==
    /\ main.pc = "build_iterator" /\ b.pc = "done"
    /\ IF main.command = "fetch-indicators"
       THEN main' = CreateIndicators(main, b.indicators)
       ELSE \E raw \in BOOLEAN : main' = Results(main, IF raw THEN 1 ELSE 2)
    /\ UNCHANGED <<mitreVars, unit42Vars, helperVars>>

\* build_iterator has raised
MainBuildIteratorRaised ==
    /\ main.pc = "build_iterator" /\ b.pc = "raised"
    /\ main' = Raised(main)
    /\ UNCHANGED <<mitreVars, unit42Vars, helperVars>>

MainExcept ==
    /\ main.integration = "FeedMitreAttackv2" /\ main.pc = "except"
    /\ main' = Except(main)
    /\ UNCHANGED <<mitreVars, unit42Vars, helperVars>>

\* FeedUnit42v2 line 420: Client(api_key, verify)
MainClientUnit42 ==
    /\ main.integration = "FeedUnit42v2" /\ main.pc = "try"
    /\ \E built \in BOOLEAN :
          main' = IF built THEN [main EXCEPT !.pc = "dispatch"] ELSE Raised(main)
    /\ UNCHANGED <<mitreVars, unit42Vars, helperVars>>

\* lines 422-424, 317-318: get_stix_objects(test=True, ...) asks the server
MainTestModuleUnit42 ==
    /\ main.integration = "FeedUnit42v2" /\ main.pc = "dispatch"
    /\ main.command = "test-module"
    /\ \E answered \in BOOLEAN :
          main' = IF answered THEN Results(main, 1) ELSE Raised(main)
    /\ UNCHANGED <<mitreVars, unit42Vars, helperVars>>

\* lines 426-427: fetch_indicators(client, feed_tags, tlp_color, create_relationships)
MainFetchIndicatorsUnit42 ==
    /\ main.integration = "FeedUnit42v2" /\ main.pc = "dispatch"
    /\ main.command = "fetch-indicators"
    /\ main' = [main EXCEPT !.pc = "fetch_indicators"]
    /\ fi' = InitFetch
    /\ UNCHANGED <<params, mitreVars, helperVars>>

\* line 335: the server does not answer a fetch_stix_objects_from_api
MainFetchObjectsRaises ==
    /\ main.pc = "fetch_indicators" /\ fi.pc = "fetch"
    /\ fi' = RaisedIn(fi, "get_stix_objects")
    /\ UNCHANGED <<params, mitreVars, helperVars, mainVars>>

\* fetch_indicators has returned: lines 428-429
MainFetchIndicatorsReturned ==
    /\ main.pc = "fetch_indicators" /\ fi.pc = "done"
    /\ main' = CreateIndicators(main, fi.result)
    /\ UNCHANGED <<mitreVars, unit42Vars, helperVars>>

\* fetch_indicators has raised
MainFetchIndicatorsRaised ==
    /\ main.pc = "fetch_indicators" /\ fi.pc = "raised"
    /\ main' = Raised(main)
    /\ UNCHANGED <<mitreVars, unit42Vars, helperVars>>

\* lines 431-432, 384-401: get_indicators_command; the server answers with the
\* first page of indicator objects, or not
MainGetIndicatorsUnit42 ==
    /\ main.integration = "FeedUnit42v2" /\ main.pc = "dispatch"
    /\ main.command = "unit42-get-indicators"
    /\ \E arg \in ArgLimits, answered \in BOOLEAN, indicators \in SeqsUpTo(U42Indicators, 1) :
          main' = IF ~AllDigits(arg) \/ ~answered THEN Raised(main)
                  ELSE IF parse_indicators(indicators, params.feed_tags,
                                           params.tlp_color).raised
                       THEN Raised(main)
                       ELSE Results(main, 1)
    /\ UNCHANGED <<mitreVars, unit42Vars, helperVars>>

\* no branch of lines 422-432 is taken
MainOtherCommandUnit42 ==
    /\ main.integration = "FeedUnit42v2" /\ main.pc = "dispatch"
    /\ main.command = "other"
    /\ main' = [main EXCEPT !.pc = "returned"]
    /\ UNCHANGED <<mitreVars, unit42Vars, helperVars>>

MainExceptUnit42 ==
    /\ main.integration = "FeedUnit42v2" /\ main.pc = "except"
    /\ main' = ExceptUnit42(main)
    /\ UNCHANGED <<mitreVars, unit42Vars, helperVars>>

NextMain ==
    \/ MainInitialise
    \/ MainTestModule
    \/ MainFetchIndicators
    \/ MainGetIndicators
    \/ MainShowFeeds
    \/ MainOtherCommand
    \/ NextCollection
    \/ ConceptsDone
    \/ QueryRaises
    \/ QueryReturns
    \/ ItemsDone
    \/ Item
    \/ Returns
    \/ MainBuildIteratorReturned
    \/ MainBuildIteratorRaised
    \/ MainExcept
    \/ MainClientUnit42
    \/ MainTestModuleUnit42
    \/ MainFetchIndicatorsUnit42
    \/ MainFetchObjectsRaises
    \/ FetchObjects
    \/ DoParseIndicators
    \/ DoParseReports
    \/ DoCreateAttackPatterns
    \/ DoCreateRelationships
    \/ DoReturn
    \/ MainFetchIndicatorsReturned
    \/ MainFetchIndicatorsRaised
    \/ MainGetIndicatorsUnit42
    \/ MainOtherCommandUnit42
    \/ MainExceptUnit42

SpecMain == InitMain /\ [][NextMain]_vars

(***************************************************************************)
(* Properties of the MITRE feed.                                           *)
(***************************************************************************)
IsEligible(o) == o.type # "relationship" /\ ~o.x_mitre_deprecated /\ ~o.revoked

\* the ids of the served indicator objects that are neither deprecated nor revoked
EligibleIds == {served[i].object.id : i \in {j \in DOMAIN served : IsEligible(served[j].object)}}

\* C1: the list build_iterator builds never holds two indicators with the same
\* STIX id (rawJSON.id, fields.stixid), also when collections serve the same object.
C1_NoDuplicateStixId ==
    \A i, j \in DOMAIN b.indicators :
        i # j => /\ b.indicators[i].rawJSON.id # b.indicators[j].rawJSON.id
                 /\ b.indicators[i].fields["stixid"] # b.indicators[j].fields["stixid"]

\* build_iterator has returned an indicator whose object two collections served
C1_Witness ==
    /\ b.pc = "done"
    /\ \E i, j \in DOMAIN served, k \in DOMAIN b.indicators :
          /\ served[i].collection # served[j].collection
          /\ served[i].object.id = served[j].object.id
          /\ b.indicators[k].rawJSON.id = served[i].object.id

\* C2: no object with a truthy x_mitre_deprecated or revoked is in the list
\* build_iterator builds.
C2_NoDeprecatedOrRevoked ==
    \A i \in DOMAIN b.indicators :
        /\ ~b.indicators[i].rawJSON.x_mitre_deprecated
        /\ ~b.indicators[i].rawJSON.revoked

\* build_iterator has returned an indicator after a revoked copy and a deprecated
\* or revoked object were served
C2_Witness ==
    /\ b.pc = "done"
    /\ Len(b.indicators) = 1
    /\ \E i \in DOMAIN served :
          /\ served[i].object.type # "relationship"
          /\ served[i].object.revoked
          /\ served[i].object.id = b.indicators[1].rawJSON.id

\* C3: with limit L > 0 the returned list has at most L indicators, over all
\* collections and types, and exactly min(L, eligible distinct ids served);
\* with limit <= 0 it has all of them.
C3_LimitBound ==
    b.pc = "done" =>
        IF limit > 0
        THEN /\ Len(b.indicators) <= limit
             /\ Len(b.indicators) = Min(limit, Cardinality(EligibleIds))
        ELSE Len(b.indicators) = Cardinality(EligibleIds)

\* build_iterator(limit=1) has returned one indicator of two eligible objects served
C3_Witness ==
    /\ b.pc = "done"
    /\ limit = 1
    /\ Cardinality(EligibleIds) = 2
    /\ Len(b.indicators) = 1

\* a step of the item loop that skips a deprecated or revoked object (line 121)
SkippingStep ==
    /\ b.pc = "items"
    /\ b.ii <= Len(b.mitre_data)
    /\ ~(0 < limit /\ limit <= b.counter)
    /\ b' # b
    /\ LET o == b.mitre_data[b.ii]
       IN  /\ o.type # "relationship"
           /\ o.x_mitre_deprecated \/ o.revoked
           /\ o.id \notin b.mitre_id_list

\* C4 as stated: with limit L > 0 each skipped deprecated or revoked object
\* consumes one unit of L.
C4_SkippedConsumesLimit ==
    [][SkippingStep /\ limit > 0 => b'.counter = b.counter + 1]_vars

\* C4, amended: a skipped deprecated or revoked object leaves the output and the
\* counter alone; the counter counts the emitted indicators only.
C4_SkippedNotCounted ==
    /\ [](b.counter = Len(b.indicators))
    /\ [][SkippingStep => /\ b'.counter = b.counter
                          /\ b'.indicators = b.indicators]_vars

\* build_iterator(limit=1) has skipped a deprecated object and still returned
\* one indicator
C4_Witness ==
    /\ b.pc = "done"
    /\ limit = 1
    /\ Len(served) = 2
    /\ served[1].object.type = "malware"
    /\ served[1].object.x_mitre_deprecated
    /\ Len(b.indicators) = 1

\* C5: a query that raises does not make build_iterator raise, is not retried,
\* and leaves the frame as a query that returned no objects would.
C5_QueryFailureSkipped ==
    /\ [](Cardinality(Range(queried)) = Len(queried))
    /\ [][QueryRaises => /\ b'.pc # "raised"
                         /\ b' = EndItems(AfterQuery(b, <<>>))]_vars

\* build_iterator has returned indicators from a call in which a query raised
\* and every (collection, concept) was queried
C5_Witness ==
    /\ b.pc = "done"
    /\ failed
    /\ b.indicators # <<>>
    /\ Range(queried) = (1..NumCollections) \X (1..NumConcepts)

\* C7: there is one edge for every distinct non-revoked-by relationship object
\* fetched, and the returned output carries that list of edges as its relationships.
C7_RelationshipsCarried ==
    b.pc = "done" =>
        /\ Len(b.relationships_list) =
              Cardinality({served[i].object.id :
                              i \in {j \in DOMAIN served :
                                        /\ served[j].object.type = "relationship"
                                        /\ served[j].object.relationship_type # "revoked-by"}})
        /\ b.indicators # <<>> =>
              \E i \in DOMAIN b.indicators :
                  /\ "relationships" \in DOMAIN b.indicators[i]
                  /\ b.indicators[i]["relationships"] = b.relationships_list

(***************************************************************************)
(* Properties of the Unit42 feed, and of both.                             *)
(***************************************************************************)
\* the edges create_list_relationships has built, once the placeholder holds them
Unit42Edges ==
    LET carrying == {i \in DOMAIN fi.indicators : "relationships" \in DOMAIN fi.indicators[i]}
    IN  IF carrying = {} THEN <<>>
        ELSE fi.indicators[CHOOSE i \in carrying : TRUE]["relationships"]

\* C6: the entity types of an edge are looked up from the references' prefixes
\* before `--`; a reference beginning `intrusion-set--` yields 'Intrusion Set',
\* in create_relationship (MITRE) and in create_list_relationships (Unit42).
C6_IntrusionSetResolved ==
    \A edges \in {b.relationships_list, Unit42Edges} :
        \A i \in DOMAIN edges :
            /\ SplitFirst(edges[i].entity_a) = "intrusion-set"
                  => edges[i].entity_a_type = "Intrusion Set"
            /\ SplitFirst(edges[i].entity_b) = "intrusion-set"
                  => edges[i].entity_b_type = "Intrusion Set"

\* the source id of an output record that has one
SourceIds(result) ==
    [ i \in {j \in DOMAIN result : "fields" \in DOMAIN result[j]} |->
        IF "indicatoridentification" \in DOMAIN result[i].fields
        THEN result[i].fields["indicatoridentification"]
        ELSE result[i].fields["stixid"] ]

FetchedObjects ==
    fi.objects_data["report"] \o fi.objects_data["indicator"] \o fi.objects_data["malware"]
    \o fi.objects_data["campaign"] \o fi.objects_data["attack-pattern"]
    \o fi.objects_data["relationship"] \o fi.objects_data["course-of-action"]

\* C8: when the fetched objects' ids are pairwise distinct, no two records of the
\* list fetch_indicators returns share a source id, and parse_indicators has
\* emitted at most one record per indicator object.
C8_NoSharedSourceId ==
    /\ fi.pc = "done"
    /\ \A i, j \in DOMAIN FetchedObjects : i # j => FetchedObjects[i].id # FetchedObjects[j].id
    => /\ \A i, j \in DOMAIN SourceIds(fi.result) :
             i # j => SourceIds(fi.result)[i] # SourceIds(fi.result)[j]
       /\ Cardinality({i \in DOMAIN fi.result : "rawJSON" \in DOMAIN fi.result[i]
                                                 /\ fi.result[i].type # "STIX Report"})
             <= Len(fi.objects_data["indicator"])

\* C9: with create_relationships the returned list holds exactly one placeholder
\* "$$DummyIndicator$$", its relationships are one edge per fetched relationship
\* object in fetch order, and no other record carries relationships; without
\* create_relationships there is no placeholder.
C9_DummyIndicator ==
    fi.pc = "done" =>
        LET dummies == {i \in DOMAIN fi.result : fi.result[i].value = "$$DummyIndicator$$"}
            carrying == {i \in DOMAIN fi.result : "relationships" \in DOMAIN fi.result[i]}
            objects == fi.objects_data["relationship"]
        IN  IF params.create_relationships
            THEN /\ Cardinality(dummies) = 1
                 /\ carrying = dummies
                 /\ \A i \in dummies :
                       LET edges == fi.result[i]["relationships"]
                       IN  /\ Len(edges) = Len(objects)
                           /\ \A k \in DOMAIN edges :
                                 /\ edges[k].name = objects[k].relationship_type
                                 /\ edges[k].entity_a = objects[k].source_ref
                                 /\ edges[k].entity_b = objects[k].target_ref
            ELSE dummies = {} /\ carrying = {}

\* fetch_indicators has returned an indicator and the placeholder with the edges
\* of two different relationship objects
C9_Witness ==
    /\ fi.pc = "done"
    /\ params.create_relationships
    /\ Len(fi.objects_data["relationship"]) = 2
    /\ fi.objects_data["relationship"][1] # fi.objects_data["relationship"][2]
    /\ Len(fi.objects_data["indicator"]) = 1
    /\ Len(fi.result) = 2

\* C10: create_list_relationships gives every side whose reference has the prefix
\* `indicator` a concrete indicator type, and raises for no relationship object
\* of the fetched data.
C10_IndicatorSidesResolved ==
    /\ ~(fi.pc = "raised" /\ fi.raised_in = "create_list_relationships")
    /\ \A i \in DOMAIN Unit42Edges :
          /\ SplitFirst(Unit42Edges[i].entity_a) = "indicator"
                => Unit42Edges[i].entity_a_type \in {"IP", "IPv6", "Domain", "URL", "File"}
          /\ SplitFirst(Unit42Edges[i].entity_b) = "indicator"
                => Unit42Edges[i].entity_b_type \in {"IP", "IPv6", "Domain", "URL", "File"}


(***************************************************************************)
(* Properties of the helper functions                                      *)
(***************************************************************************)
\* the order of two strings of one length whose characters differ in digits only
RECURSIVE StrLe(_, _)
StrLe(x, y) ==
    IF x = "" THEN TRUE
    ELSE IF CharAt(x, 1) # CharAt(y, 1)
         THEN DigitValue(CharAt(x, 1)) < DigitValue(CharAt(y, 1))
         ELSE StrLe(SubSeq(x, 2, Len(x)), SubSeq(y, 2, Len(y)))

\* a line "YYYY-MM-DDTHH:MM:SS.mmmZ"
IsMillisecondTimestamp(line) == Len(line) = 24 /\ ~strptime(line).raised

DatesCalled ==
    /\ call.fn \in {"handle_multiple_dates_in_one_field",
                    "handle_multiple_dates_in_one_field_unit42"}
    /\ call.lines # <<>>
    /\ \A i \in DOMAIN call.lines : IsMillisecondTimestamp(call.lines[i])

DatesResultOf(fn, field_name, lines) ==
    IF fn = "handle_multiple_dates_in_one_field"
    THEN handle_multiple_dates_in_one_field(field_name, {Join("\n", lines)})
    ELSE handle_multiple_dates_in_one_field_unit42(field_name, {Join("\n", lines)})

\* C11: of one or more newline-separated millisecond timestamps,
\* handle_multiple_dates_in_one_field returns the earliest for 'created' and the
\* latest for any other field name, in the same form; the result is one of the
\* input lines and is the same for every order of the lines.
C11_DatesFolded ==
    DatesCalled =>
        /\ ~call.result.raised
        /\ call.result.v \in Range(call.lines)
        /\ \A l \in Range(call.lines) :
              IF call.field_name = "created" THEN StrLe(call.result.v, l)
              ELSE StrLe(l, call.result.v)
        /\ \A p \in Permutations(DOMAIN call.lines) :
              DatesResultOf(call.fn, call.field_name,
                            [i \in DOMAIN call.lines |-> call.lines[p[i]]]) = call.result

\* 'modified' of three different timestamps, the latest in the middle
C11_Witness ==
    /\ DatesCalled
    /\ call.field_name = "modified"
    /\ Len(call.lines) = 3
    /\ call.lines[1] # call.lines[3]
    /\ call.result = Ok(call.lines[2])
    /\ call.result.v \notin {call.lines[1], call.lines[3]}


\* the publications of the call's result, when it returned
PublicationsReturned ==
    IF call.fn = "map_fields_by_type" THEN call.result.v["publications"]
    ELSE call.result.v[1].fields["publications"]

PublicationsCalled == call.fn \in {"map_fields_by_type", "create_attack_pattern_indicator"}

\* the external references without a truthy external_id, in their order
WithoutExternalId(external_references) ==
    SelectSeq(external_references, LAMBDA r : r.external_id \in {None, ""})

\* C12: the publications list built for an object holds one {Link: url,
\* Title: description} pair for each external reference without a truthy
\* external_id, in the order of external_references, and nothing else, in
\* map_fields_by_type and in create_attack_pattern_indicator.
C12_Publications ==
    PublicationsCalled =>
        LET kept == WithoutExternalId(call.external_references)
        IN  /\ call.publications =
                   [i \in DOMAIN kept |-> [Link |-> kept[i].url, Title |-> kept[i].description]]
            /\ ~call.result.raised => PublicationsReturned = call.publications

\* an object whose first reference has an external_id and whose other two, which
\* differ, have none: two publications are returned
C12_Witness ==
    /\ PublicationsCalled
    /\ ~call.result.raised
    /\ Len(call.external_references) = 3
    /\ Truthy(call.external_references[1].external_id)
    /\ ~Truthy(call.external_references[2].external_id)
    /\ ~Truthy(call.external_references[3].external_id)
    /\ call.external_references[2] # call.external_references[3]
    /\ Len(PublicationsReturned) = 2
    /\ PublicationsReturned[1].Link = call.external_references[2].url


HasMappedFields(o) ==
    IsEligible(o) /\ o.created # {} /\ o.modified # {} /\ o.x_mitre_platforms # {}

GenericKeys == {"stixid", "firstseenbysource", "modified", "description", "publications"}

\* the indicators emitted for the object o
IndicatorsOf(o) == {k \in DOMAIN b.indicators : b.indicators[k].rawJSON = o}

\* C14: when every eligible object served has created, modified and
\* x_mitre_platforms, build_iterator does not raise, and once it has returned
\* without a limit, each such object has one indicator, whose fields hold the
\* generic keys and whose fields.tags holds each feed tag as an element.
C14_EligibleObjectEmitted ==
    /\ (\A i \in DOMAIN served :
           IsEligible(served[i].object) => HasMappedFields(served[i].object))
          => b.pc # "raised"
    /\ (b.pc = "done" /\ limit <= 0) =>
          \A i \in DOMAIN served :
             HasMappedFields(served[i].object) =>
                /\ Cardinality(IndicatorsOf(served[i].object)) = 1
                /\ \A k \in IndicatorsOf(served[i].object) :
                      LET fields == b.indicators[k].fields
                      IN  /\ GenericKeys \subseteq DOMAIN fields
                          /\ "tags" \in DOMAIN fields
                          /\ \A t \in Range(tags) :
                                \E l \in fields["tags"] : PyStr(t) \in Range(l)

ScoreOfType ==
    [ t \in IndicatorTypes |->
        CASE t \in {"intrusion-set", "malware"} -> 3
          [] t \in {"attack-pattern", "tool"} -> 2
          [] OTHER -> 0 ]

\* C15: every indicator build_iterator has built has the score of its type:
\* 3 for intrusion sets and malware, 2 for attack patterns and tools, 0 for
\* courses of action; none is null.
C15_ScoreOfType ==
    \A k \in DOMAIN b.indicators :
        b.indicators[k].score = {ScoreOfType[b.indicators[k].rawJSON.type]}

=============================================================================
